---- MODULE Spec2Model ----
(***************************************************************************)
(* MoneyMentor retrieval pipeline: the indexing flow (load_knowledge over  *)
(* the Qdrant helpers of vectorstore.py), the reranking retriever          *)
(* (HybridReranker.get_relevant_documents) and the answer flow             *)
(* (get_finance_answer).  External collaborators (Qdrant, the embedding    *)
(* API, Cohere, the chat model, the file system) are nondeterministic      *)
(* inputs of the steps that call them.                                     *)
(***************************************************************************)
EXTENDS Integers, Sequences, FiniteSets, TLC

VARIABLES
    \* ---- vectorstore.py / Qdrant ----
    client_instance,      \* _client_instance is not None
    coll_exists,          \* the collection COLLECTION_NAME exists in the store
    coll,                 \* its points: a function id -> payload
    \* ---- the corpus directory (processed_dir) ----
    disk,
    \* ---- load_knowledge: the run in progress ----
    pc,                   \* "idle" | "chunk" | "embed" | "upsert" | "finish"
    force_rebuild,        \* the run's force_rebuild argument
    txt_files,            \* list(processed_path.glob("*.txt"))
    file_idx,             \* files of txt_files already visited
    all_chunks,
    documents_processed,
    points,
    i,                    \* the loop variable of the embedding / upsert loop
    vectors_indexed,
    lk_result,            \* what the last finished run returned
    \* ---- history of the run, kept for the properties ----
    runs,                 \* finished runs
    embed_calls,          \* embed_documents calls of this run: <<[i, ok]>>
    upsert_calls,         \* upsert_points calls of this run: <<[batch_num, ids, ok]>>
    started,              \* when the run began: [disk, coll_exists, coll], and
                          \* [prev_disk, prev_result] of the run before it
    \* ---- HybridReranker.get_relevant_documents ----
    rr,
    \* ---- get_finance_answer ----
    fa,
    \* ---- the lexical (BM25) index of the process ----
    lexical,
    \* ---- concurrent callers of get_qdrant_client ----
    gc,
    \* ---- the EnsembleRetriever of build_hybrid_rerank_retriever ----
    hy,
    \* ---- ensure_collection called on its own ----
    ec,
    \* ---- the text splitter of load_knowledge ----
    sp,
    \* ---- run_calculation_query ----
    cq,
    \* ---- the chat endpoint ----
    ch,
    \* ---- run_agent_query and the tools ----
    ag

idxVars == <<client_instance, coll_exists, coll, disk, pc, force_rebuild,
             txt_files, file_idx, all_chunks, documents_processed, points, i,
             vectors_indexed, lk_result, runs, embed_calls, upsert_calls,
             started>>

\* the variables the indexing flow leaves alone
\* the variables of the operations outside the retrieval pipeline
toolVars == <<ec, sp, cq, ch, ag>>

qryVars == <<rr, fa, lexical, gc, hy, toolVars>>

vars == <<idxVars, rr, fa, lexical, gc, hy, toolVars>>

(***************************************************************************)
(* Bounds of the model.                                                    *)
(***************************************************************************)
MaxRuns == 2
MaxEmbedFailures == 1
MaxDocs == 3
MaxResults == 2
MaxScore == 2
MaxAnswerResults == 1
MaxShared == 2
MaxBuilds == 2
MaxThreads == 3
MaxCalls == 3
MaxEnsureCalls == 3
MaxLines == 3
MaxLineLen == 5
MaxChunkSize == 4
MaxOverlap == 1
MaxPhrases == 3
MaxNumber == 5
MaxAgents == 2
MaxQueries == 2
MaxToolCalls == 2

(***************************************************************************)
(* Program constants.                                                      *)
(***************************************************************************)
batch_size == 20
upsert_batch_size == 100
COLLECTION_NAME == "moneymentor_knowledge"
CHAT_MODEL == "gpt-4o-mini"
INITIAL_K == 20
FINAL_K == 5
\* the weights of the ensemble, in tenths
BM25_WEIGHT == 4
VECTOR_WEIGHT == 6
\* the constant c of the rank fusion, EnsembleRetriever's default
RRF_C == 60
VECTOR_SIZE == 1536

Min(a, b) == IF a < b THEN a ELSE b

Range(s) == {s[n] : n \in 1..Len(s)}

(***************************************************************************)
(* The corpus.  A file is its name, a revision of its content, the number  *)
(* of chunks text_splitter.split_text yields for it (0: the text is empty  *)
(* or whitespace only) and whether open()/read() succeeds.  The text of    *)
(* chunk n of a file is the token <<name, rev, n>>.                        *)
(***************************************************************************)
File(name, rev, nchunks, readable) ==
    [name |-> name, rev |-> rev, nchunks |-> nchunks, readable |-> readable,
     padded |-> FALSE]

\* the same file with white space around its text or blank lines in it,
\* which split_text drops from the chunks (data_loader joins the pages of a
\* document with blank lines)
Padded(f) == [f EXCEPT !.padded = TRUE]

NoDir == [exists |-> FALSE, files |-> <<>>]
Dir(files) == [exists |-> TRUE, files |-> files]

Corpora ==
    { NoDir,
      Dir(<<>>),
      Dir(<<File("blank.txt", 1, 0, TRUE)>>),
      Dir(<<File("bad.txt", 1, 2, FALSE), File("blank.txt", 1, 0, TRUE)>>),
      Dir(<<File("a.txt", 1, 6, TRUE), File("b.txt", 1, 4, TRUE)>>),
      Dir(<<File("a.txt", 2, 60, TRUE), File("bad.txt", 1, 2, FALSE),
            File("blank.txt", 1, 0, TRUE), File("b.txt", 1, 45, TRUE)>>) }

(***************************************************************************)
(* rag_pipeline.py, load_knowledge: the chunking of one file.              *)
(***************************************************************************)
\* text_splitter.split_text(text) with the enumerate() of lines 193-198
FileChunks(f) ==
    [n \in 1..f.nchunks |->
        [text |-> <<f.name, f.rev, n - 1>>, source |-> f.name, chunk_id |-> n - 1]]

\* what the chunking loop (lines 176-204) builds from a directory listing
RECURSIVE ChunksOf(_)
ChunksOf(files) ==
    IF files = <<>> THEN <<>>
    ELSE LET f == files[Len(files)]
         IN  ChunksOf(SubSeq(files, 1, Len(files) - 1))
                \o (IF f.readable THEN FileChunks(f) ELSE <<>>)

\* mutant: only a file that cannot be read is passed over
Skipped_OnlyUnreadable(f) == ~f.readable

\* a file the chunking loop passes over: open()/read() raised (line 202), or
\* "if not text.strip()" (line 185)
Skipped(f) == ~f.readable \/ f.nchunks = 0

\* files that count in documents_processed: read, and not blank
DocsOf(files) ==
    Cardinality({n \in 1..Len(files) : files[n].readable /\ files[n].nchunks > 0})

(***************************************************************************)
(* The point of chunk j (0-based) of the embedding batch that starts at    *)
(* position i of all_chunks (lines 235-245).                               *)
(***************************************************************************)
\* mutant: the id is the point's position among the points built so far
PointId_ByPosition(i0, j, npoints) == npoints

PointId(i0, j, npoints) == i0 + j

MakePoint(i0, j, npoints, chunk) ==
    [id |-> PointId(i0, j, npoints), payload |-> chunk]

\* mutant: the slice stops one chunk short
EmbedSlice_Short(chunks, i0) ==
    SubSeq(chunks, i0 + 1, Min(i0 + batch_size - 1, Len(chunks)))

\* all_chunks[i:i + batch_size] (line 226)
EmbedSlice(chunks, i0) == SubSeq(chunks, i0 + 1, Min(i0 + batch_size, Len(chunks)))

EmbedBatchPoints(chunks, i0, npoints) ==
    LET batch == EmbedSlice(chunks, i0)
    IN  [j \in 1..Len(batch) |-> MakePoint(i0, j - 1, npoints + j - 1, batch[j])]

\* mutant: "break" in place of "continue"
NextEmbedIndex_Break(i0, embed_ok) ==
    IF embed_ok THEN i0 + batch_size ELSE Len(all_chunks)

\* the embedding loop after a batch: the except clause ends in "continue", so
\* the loop goes on to the next batch whether or not the batch was embedded
NextEmbedIndex(i0, embed_ok) == i0 + batch_size

(***************************************************************************)
(* vectorstore.py                                                          *)
(***************************************************************************)
\* get_qdrant_client: the singleton, or a connection attempt
GetClient(inst, reachable) == inst \/ reachable

\* ensure_collection: True iff the client is there and no store call raised
EnsureCollection(client, store_ok) == client /\ store_ok

\* mutant: the batch replaces the collection
UpsertInto_Replace(c, batch) == {batch[n] : n \in 1..Len(batch)}

\* client.upsert: write-or-replace by id, the later point of a batch winning
UpsertInto(c, batch) ==
    LET ids == {batch[n].id : n \in 1..Len(batch)}
        kept == {p \in c : p.id \notin ids}
        new == {batch[n] : n \in {m \in 1..Len(batch) :
                    \A m2 \in (m + 1)..Len(batch) : batch[m2].id # batch[m].id}}
    IN  kept \cup new

\* upsert_points: False without a client or when client.upsert raises
UpsertPoints(client, batch, store_ok) ==
    IF ~client THEN FALSE
    ELSE IF batch = <<>> THEN TRUE
    ELSE store_ok

(***************************************************************************)
(* The result dictionaries of load_knowledge.                              *)
(***************************************************************************)
Result(ok, err, docs, chunks, vecs) ==
    [success |-> ok, error |-> err, documents_processed |-> docs,
     chunks_created |-> chunks, vectors_indexed |-> vecs]

NoResult == Result(FALSE, "not run", 0, 0, 0)

\* the upsert batch starting at position i0 of points (line 274)
UpsertBatch(pts, i0) == SubSeq(pts, i0 + 1, Min(i0 + upsert_batch_size, Len(pts)))

BatchNum(i0) == (i0 \div upsert_batch_size) + 1

\* mutant: the result of upsert_points is ignored
UpsertAborts_Never(ok) == FALSE

\* "if not upsert_points(...)": the run returns at a failed batch (line 280)
UpsertAborts(ok) == ~ok

\* mutant: the failed batch is counted as indexed
FailedUpsertResult_CountsBatch(docs, nchunks, vecs, nbatch) ==
    Result(FALSE, "Failed to upsert vectors at batch", docs, nchunks, vecs + nbatch)

\* the dictionary returned at a failed upsert batch (lines 282-288)
FailedUpsertResult(docs, nchunks, vecs, nbatch) ==
    Result(FALSE, "Failed to upsert vectors at batch", docs, nchunks, vecs)

\* mutant: no check for an empty file list
StartError_NoEmptyCheck(api_key, client, ensured, dir_exists, files) ==
    IF ~api_key THEN "OPENAI_API_KEY not set"
    ELSE IF ~client THEN "Qdrant connection failed"
    ELSE IF ~ensured THEN "Failed to create collection"
    ELSE IF ~dir_exists THEN "Directory not found"
    ELSE ""

\* the early returns of lines 96-153: the error reported, "" to go on
StartError(api_key, client, ensured, dir_exists, files) ==
    IF ~api_key THEN "OPENAI_API_KEY not set"
    ELSE IF ~client THEN "Qdrant connection failed"
    ELSE IF ~ensured THEN "Failed to create collection"
    ELSE IF ~dir_exists THEN "Directory not found"
    ELSE IF files = <<>> THEN "No text files found"
    ELSE ""

\* mutant: the store is connected before the API key is looked at
StartCalls_ConnectFirst(api_key, inst, reachable, store_ok, exists) ==
    (IF inst THEN <<>> ELSE <<"connect">>)
      \o (IF GetClient(inst, reachable)
            THEN <<"get_collections">>
                   \o (IF store_ok /\ ~exists THEN <<"create_collection">> ELSE <<>>)
            ELSE <<>>)

\* the calls to the store made by lines 96-130: none without the API key
\* (line 99 returns); else the connection of get_qdrant_client when there is
\* no client yet and, with a client, the get_collections of
\* ensure_collection and its create_collection for a collection not listed
StartCalls(api_key, inst, reachable, store_ok, exists) ==
    IF ~api_key THEN <<>>
    ELSE (IF inst THEN <<>> ELSE <<"connect">>)
           \o (IF GetClient(inst, reachable)
                 THEN <<"get_collections">>
                        \o (IF store_ok /\ ~exists THEN <<"create_collection">> ELSE <<>>)
                 ELSE <<>>)

\* ensure_collection was not called
NotEnsured ==
    [called |-> FALSE, name |-> "", size |-> 0, distance |-> "", returned |-> FALSE]

\* mutant: the collection is ensured with another vector size
EnsureRecord_OtherSize(api_key, client, store_ok) ==
    IF ~api_key \/ ~client THEN NotEnsured
    ELSE [called |-> TRUE, name |-> COLLECTION_NAME, size |-> 384,
          distance |-> "Cosine", returned |-> EnsureCollection(client, store_ok)]

\* the call of line 123, ensure_collection(collection_name, VECTOR_SIZE), its
\* distance the default of vectorstore.py line 77, and what it returned; it
\* is reached only with the API key and a client
EnsureRecord(api_key, client, store_ok) ==
    IF ~api_key \/ ~client THEN NotEnsured
    ELSE [called |-> TRUE, name |-> COLLECTION_NAME, size |-> VECTOR_SIZE,
          distance |-> "Cosine", returned |-> EnsureCollection(client, store_ok)]

\* mutant: the handler logs the exception and raises it again
OuterExcept_Reraise(e) == [raised |-> e]

\* the handler of lines 320-330: any exception of the body becomes a result
OuterExcept(e) == Result(FALSE, e, 0, 0, 0)

EmbedFailures == Cardinality({n \in 1..Len(embed_calls) : ~embed_calls[n].ok})


(***************************************************************************)
(* load_knowledge, as the steps of one run.  A run ends in Return, which   *)
(* records the returned dictionary.                                        *)
(***************************************************************************)
Return(res) ==
    /\ lk_result' = res
    /\ pc' = "idle"
    /\ runs' = runs + 1

\* lines 96-171: the checks before the chunking loop; embed_init_ok is
\* whether OpenAIEmbeddings(...) (line 167) returned, an exception there
\* reaching the handler of line 320
LK_Start(api_key, reachable, store_ok, embed_init_ok, fr) ==
    /\ UNCHANGED qryVars
    /\ pc = "idle"
    /\ runs < MaxRuns
    /\ LET client == IF api_key THEN GetClient(client_instance, reachable)
                                ELSE client_instance
           ensured == api_key /\ client /\ EnsureCollection(client, store_ok)
           files == IF disk.exists THEN disk.files ELSE <<>>
       IN  /\ force_rebuild' = fr
           /\ started' = [disk |-> disk, coll_exists |-> coll_exists, coll |-> coll,
                           prev_disk |-> started.disk,
                           prev_result |-> lk_result,
                           api_key |-> api_key,
                           ensure |-> EnsureRecord(api_key, client, store_ok),
                           calls |-> StartCalls(api_key, client_instance,
                                                reachable, store_ok, coll_exists)]
           /\ client_instance' = client
           /\ coll_exists' = (coll_exists \/ ensured)
           /\ coll' = coll
           /\ embed_calls' = <<>>
           /\ upsert_calls' = <<>>
           /\ all_chunks' = <<>>
           /\ documents_processed' = 0
           /\ points' = <<>>
           /\ i' = 0
           /\ vectors_indexed' = 0
           /\ file_idx' = 0
           /\ UNCHANGED disk
           /\ LET err == StartError(api_key, client, ensured, disk.exists, files)
               IN  IF err # ""
                     THEN /\ txt_files' = <<>>
                          /\ Return(Result(FALSE, err, 0, 0, 0))
                     ELSE IF ~embed_init_ok
                     THEN /\ txt_files' = files
                          /\ Return(OuterExcept("OpenAIEmbeddings failed"))
                     ELSE /\ txt_files' = files
                          /\ pc' = "chunk"
                          /\ UNCHANGED <<lk_result, runs>>

\* lines 176-204: one file of the chunking loop
LK_ProcessFile ==
    /\ UNCHANGED qryVars
    /\ pc = "chunk"
    /\ file_idx < Len(txt_files)
    /\ LET f == txt_files[file_idx + 1]
       IN  /\ file_idx' = file_idx + 1
           /\ IF Skipped(f)
                THEN UNCHANGED <<all_chunks, documents_processed>>
                ELSE /\ all_chunks' = all_chunks \o FileChunks(f)
                     /\ documents_processed' = documents_processed + 1
    /\ UNCHANGED <<client_instance, coll_exists, coll, disk, pc, force_rebuild,
                   txt_files, points, i, vectors_indexed, lk_result, runs,
                   embed_calls, upsert_calls, started>>

\* lines 206-223: after the chunking loop
LK_ChunksDone ==
    /\ UNCHANGED qryVars
    /\ pc = "chunk"
    /\ file_idx = Len(txt_files)
    /\ IF all_chunks = <<>>
         THEN Return(Result(FALSE, "No chunks created", documents_processed, 0, 0))
         ELSE /\ pc' = "embed"
              /\ UNCHANGED <<lk_result, runs>>
    /\ UNCHANGED <<client_instance, coll_exists, coll, disk, force_rebuild,
                   txt_files, file_idx, all_chunks, documents_processed, points,
                   i, vectors_indexed, embed_calls, upsert_calls, started>>

\* lines 225-254: one batch of the embedding loop; embed_ok is whether
\* embeddings.embed_documents returned
LK_EmbedBatch(embed_ok) ==
    /\ UNCHANGED qryVars
    /\ pc = "embed"
    /\ i < Len(all_chunks)
    /\ embed_ok \/ EmbedFailures < MaxEmbedFailures
    /\ points' = IF embed_ok
                   THEN points \o EmbedBatchPoints(all_chunks, i, Len(points))
                   ELSE points
    /\ embed_calls' = Append(embed_calls, [i |-> i, ok |-> embed_ok])
    /\ i' = NextEmbedIndex(i, embed_ok)
    /\ UNCHANGED <<client_instance, coll_exists, coll, disk, pc, force_rebuild,
                   txt_files, file_idx, all_chunks, documents_processed,
                   vectors_indexed, lk_result, runs, upsert_calls, started>>

\* lines 256-271: after the embedding loop
LK_EmbedDone ==
    /\ UNCHANGED qryVars
    /\ pc = "embed"
    /\ i >= Len(all_chunks)
    /\ IF points = <<>>
         THEN /\ Return(Result(FALSE, "Embedding generation failed",
                               documents_processed, Len(all_chunks), 0))
              /\ UNCHANGED i
         ELSE /\ pc' = "upsert"
              /\ i' = 0
              /\ UNCHANGED <<lk_result, runs>>
    /\ UNCHANGED <<client_instance, coll_exists, coll, disk, force_rebuild,
                   txt_files, file_idx, all_chunks, documents_processed, points,
                   vectors_indexed, embed_calls, upsert_calls, started>>

\* lines 273-291: one batch of the upsert loop; store_ok is whether
\* client.upsert returned
LK_UpsertBatch(store_ok) ==
    /\ UNCHANGED qryVars
    /\ pc = "upsert"
    /\ i < Len(points)
    /\ LET batch == UpsertBatch(points, i)
           ok == UpsertPoints(GetClient(client_instance, FALSE), batch, store_ok)
       IN  /\ upsert_calls' = Append(upsert_calls,
                  [batch_num |-> BatchNum(i), first |-> i, size |-> Len(batch),
                   ok |-> ok])
           /\ coll' = IF ok THEN UpsertInto(coll, batch) ELSE coll
           /\ IF UpsertAborts(ok)
                THEN /\ Return(FailedUpsertResult(documents_processed,
                                   Len(all_chunks), vectors_indexed, Len(batch)))
                     /\ UNCHANGED <<vectors_indexed, i>>
                ELSE /\ vectors_indexed' = vectors_indexed + Len(batch)
                     /\ i' = i + upsert_batch_size
                     /\ UNCHANGED <<pc, lk_result, runs>>
    /\ UNCHANGED <<client_instance, coll_exists, disk, force_rebuild, txt_files,
                   file_idx, all_chunks, documents_processed, points,
                   embed_calls, started>>

\* lines 293-318: after the upsert loop
LK_Finish ==
    /\ UNCHANGED qryVars
    /\ pc = "upsert"
    /\ i >= Len(points)
    /\ Return(IF vectors_indexed # Len(points)
                THEN Result(FALSE, "Incomplete upsert", documents_processed,
                            Len(all_chunks), vectors_indexed)
                ELSE Result(TRUE, "", documents_processed, Len(all_chunks),
                            vectors_indexed))
    /\ UNCHANGED <<client_instance, coll_exists, coll, disk, force_rebuild,
                   txt_files, file_idx, all_chunks, documents_processed, points,
                   i, vectors_indexed, embed_calls, upsert_calls, started>>

\* between runs the corpus directory is edited
ChangeCorpus ==
    /\ UNCHANGED qryVars
    /\ pc = "idle"
    /\ runs < MaxRuns
    /\ \E d \in Corpora \ {disk} : disk' = d
    /\ UNCHANGED <<client_instance, coll_exists, coll, pc, force_rebuild,
                   txt_files, file_idx, all_chunks, documents_processed, points,
                   i, vectors_indexed, lk_result, runs, embed_calls,
                   upsert_calls, started>>

RerankIdle == [phase |-> "none"]
AnswerIdle == [phase |-> "none"]

HybridIdle == [phase |-> "none"]

\* no BM25 index has been built in this process
NoLexical == [builds |-> 0]

\* the threads that call get_qdrant_client
Threads == 1..MaxThreads

\* no thread is inside get_qdrant_client and no client has been constructed.
\* pc: where each thread is ("out", or before "connect" or "store"); client:
\* the local variable client; instance: _client_instance, 0 for None, else
\* the number of the client; constructed: clients whose connection
\* succeeded; returned: the last client each thread got back; calls: the
\* calls begun
\* the store holds no collection and ensure_collection has not been called.
\* store: the collections of the store, one entry per create_collection that
\* succeeded; calls: the calls of ensure_collection so far, each with its
\* arguments, what the store did and what the call returned
NoEnsureCalls == [store |-> <<>>, calls |-> <<>>]
SplitIdle == [phase |-> "none"]
CalcIdle == [phase |-> "none"]
ChatIdle == [phase |-> "none"]
\* the threads that call run_agent_query
Agents == 1..MaxAgents

\* no query has been run and no tool has been called.  tracker: the list
\* _tools_invoked, each entry with the request that appended it (0: a call
\* from outside run_agent_query); pc: "out", or "agent" while the agent of
\* the thread's request runs; req: the number of the thread's request;
\* alone: nothing else touched the tracker during the request; returned:
\* the tool_used of the thread's last request with the origin of each name
NoAgentQueries ==
    [tracker |-> <<>>,
     pc |-> [t \in Agents |-> "out"],
     req |-> [t \in Agents |-> 0],
     alone |-> [t \in Agents |-> TRUE],
     returned |-> [t \in Agents |-> [req |-> 0, tool_used |-> <<>>, from |-> <<>>]],
     queries |-> 0,
     tool_calls |-> 0]

NoCallers ==
    [pc |-> [t \in Threads |-> "out"],
     client |-> [t \in Threads |-> 0],
     instance |-> 0,
     constructed |-> 0,
     returned |-> [t \in Threads |-> 0],
     calls |-> 0]

Init ==
    /\ ec = NoEnsureCalls
    /\ sp = SplitIdle
    /\ cq = CalcIdle
    /\ ch = ChatIdle
    /\ ag = NoAgentQueries
    /\ rr = RerankIdle
    /\ fa = AnswerIdle
    /\ lexical = NoLexical
    /\ gc = NoCallers
    /\ hy = HybridIdle
    /\ client_instance = FALSE
    /\ coll_exists = FALSE
    /\ coll = {}
    /\ disk = NoDir
    /\ pc = "idle"
    /\ force_rebuild = FALSE
    /\ txt_files = <<>>
    /\ file_idx = 0
    /\ all_chunks = <<>>
    /\ documents_processed = 0
    /\ points = <<>>
    /\ i = 0
    /\ vectors_indexed = 0
    /\ lk_result = NoResult
    /\ runs = 0
    /\ embed_calls = <<>>
    /\ upsert_calls = <<>>
    /\ started = [disk |-> NoDir, coll_exists |-> FALSE, coll |-> {},
                  prev_disk |-> NoDir, prev_result |-> NoResult,
                  api_key |-> TRUE, ensure |-> NotEnsured, calls |-> <<>>]

IndexNext ==
    \/ \E api_key, reachable, store_ok, embed_init_ok, fr \in BOOLEAN :
          LK_Start(api_key, reachable, store_ok, embed_init_ok, fr)
    \/ LK_ProcessFile
    \/ LK_ChunksDone
    \/ \E embed_ok \in BOOLEAN : LK_EmbedBatch(embed_ok)
    \/ LK_EmbedDone
    \/ \E store_ok \in BOOLEAN : LK_UpsertBatch(store_ok)
    \/ LK_Finish
    \/ ChangeCorpus

\* the indexing flow alone
SpecIndex == Init /\ [][IndexNext]_vars

(***************************************************************************)
(* vectorstore.py, get_qdrant_client called from several threads.  The     *)
(* function holds no lock: a thread can be suspended between the test of   *)
(* _client_instance (line 37), the connection (lines 49-54) and the        *)
(* assignment (line 57).                                                   *)
(***************************************************************************)
\* line 37-38: the test of the singleton, and the return when it is set
GC_Check(t) ==
    /\ gc.pc[t] = "out"
    /\ gc.calls < MaxCalls
    /\ gc' = IF gc.instance # 0
               THEN [gc EXCEPT !.returned[t] = gc.instance, !.calls = @ + 1]
               ELSE [gc EXCEPT !.pc[t] = "connect", !.calls = @ + 1]
    /\ UNCHANGED <<idxVars, toolVars, rr, fa, lexical, hy>>

\* lines 43-71: QdrantClient(...) and client.get_collections(); ok is
\* whether they returned, else the handlers return None
GC_Connect(t, ok) ==
    /\ gc.pc[t] = "connect"
    /\ gc' = IF ok
               THEN [gc EXCEPT !.pc[t] = "store",
                               !.client[t] = gc.constructed + 1,
                               !.constructed = @ + 1]
               ELSE [gc EXCEPT !.pc[t] = "out"]
    /\ UNCHANGED <<idxVars, toolVars, rr, fa, lexical, hy>>

\* lines 57-58: _client_instance = client; return client
GC_Store(t) ==
    /\ gc.pc[t] = "store"
    /\ gc' = [gc EXCEPT !.pc[t] = "out",
                        !.instance = gc.client[t],
                        !.returned[t] = gc.client[t]]
    /\ UNCHANGED <<idxVars, toolVars, rr, fa, lexical, hy>>

ClientNext ==
    \/ \E t \in Threads : GC_Check(t)
    \/ \E t \in Threads, ok \in BOOLEAN : GC_Connect(t, ok)
    \/ \E t \in Threads : GC_Store(t)

\* the callers of get_qdrant_client alone
SpecClient == Init /\ [][ClientNext]_vars

(***************************************************************************)
(* vectorstore.py, ensure_collection (lines 74-128), called on its own.    *)
(***************************************************************************)
CollectionNames == {COLLECTION_NAME, "scratch"}
VectorSizes == {VECTOR_SIZE, 384}

\* mutant: the collection is never found in the listing
Listed_Never(store, name) == FALSE

\* "collection_name in collection_names" (lines 101-104)
Listed(store, name) == \E n \in 1..Len(store) : store[n].name = name

\* what one call does to the store and what it returns.  client: whether
\* get_qdrant_client returned a client; list_ok, create_ok: whether
\* get_collections and create_collection returned
EnsureCollectionCall(store, name, size, client, list_ok, create_ok) ==
    IF ~client THEN [store |-> store, returned |-> FALSE, created |-> FALSE]
    ELSE IF ~list_ok THEN [store |-> store, returned |-> FALSE, created |-> FALSE]
    ELSE IF Listed(store, name)
      THEN [store |-> store, returned |-> TRUE, created |-> FALSE]
    ELSE IF ~create_ok THEN [store |-> store, returned |-> FALSE, created |-> FALSE]
    ELSE [store |-> Append(store, [name |-> name, size |-> size,
                                   distance |-> "Cosine"]),
          returned |-> TRUE, created |-> TRUE]

\* one call of ensure_collection
EC_Ensure(name, size, client, list_ok, create_ok) ==
    /\ Len(ec.calls) < MaxEnsureCalls
    /\ LET out == EnsureCollectionCall(ec.store, name, size, client, list_ok,
                                       create_ok)
       IN  ec' = [store |-> out.store,
                  calls |-> Append(ec.calls,
                     [name |-> name, size |-> size,
                      answered |-> client /\ list_ok
                                     /\ (Listed(ec.store, name) \/ create_ok),
                      returned |-> out.returned, created |-> out.created])]
    /\ UNCHANGED <<idxVars, rr, fa, lexical, gc, hy, sp, cq, ch, ag>>

EnsureNext ==
    \/ \E name \in CollectionNames, size \in VectorSizes,
          client, list_ok, create_ok \in BOOLEAN :
             EC_Ensure(name, size, client, list_ok, create_ok)

\* ensure_collection alone
SpecEnsure == Init /\ [][EnsureNext]_vars

(***************************************************************************)
(* rag_pipeline.py, the text splitter of load_knowledge (lines 157-161,    *)
(* 190): CharacterTextSplitter with the separator "\n".  A text is the     *)
(* sequence of the lengths of its lines, 0 for an empty line; a chunk is   *)
(* the lines it joins, with one separator between two lines.               *)
(***************************************************************************)
Texts == UNION {[1..n -> 0..MaxLineLen] : n \in 0..MaxLines}

RECURSIVE SumLens(_)
SumLens(lines) == IF lines = <<>> THEN 0 ELSE Head(lines) + SumLens(Tail(lines))

\* len(chunk): the lines and the separators between them
ChunkLen(lines) == IF lines = <<>> THEN 0 ELSE SumLens(lines) + Len(lines) - 1

\* text.split("\n") without the empty pieces
SplitOnSeparator(text) == SelectSeq(text, LAMBDA l : l > 0)

\* what a further line adds to a chunk of n lines
Added(l, n) == l + (IF n > 0 THEN 1 ELSE 0)

\* the while loop of _merge_splits: lines are dropped from the front of the
\* current chunk until what is left fits the overlap and leaves room for
\* the line l
RECURSIVE DropFront(_, _, _, _)
DropFront(cur, l, chunk_size, chunk_overlap) ==
    IF /\ cur # <<>>
       /\ \/ ChunkLen(cur) > chunk_overlap
          \/ ChunkLen(cur) + Added(l, Len(cur)) > chunk_size
      THEN DropFront(Tail(cur), l, chunk_size, chunk_overlap)
      ELSE cur

\* "total + _len + separator_len > self._chunk_size": the line does not fit
\* the current chunk
Fits(cur, l, chunk_size) == ChunkLen(cur) + Added(l, Len(cur)) <= chunk_size

\* _merge_splits: the pieces are gathered into chunks; a piece that does not
\* fit closes the current chunk, and is itself never cut
RECURSIVE MergeSplits(_, _, _, _, _)
MergeSplits(splits, docs, cur, chunk_size, chunk_overlap) ==
    IF splits = <<>>
      THEN IF cur = <<>> THEN docs ELSE Append(docs, cur)
      ELSE LET l == Head(splits)
           IN  IF Fits(cur, l, chunk_size) \/ cur = <<>>
                 THEN MergeSplits(Tail(splits), docs, Append(cur, l),
                                  chunk_size, chunk_overlap)
                 ELSE MergeSplits(Tail(splits), Append(docs, cur),
                         Append(DropFront(cur, l, chunk_size, chunk_overlap), l),
                         chunk_size, chunk_overlap)

\* text_splitter.split_text(text) (line 190)
SplitText(text, chunk_size, chunk_overlap) ==
    MergeSplits(SplitOnSeparator(text), <<>>, <<>>, chunk_size, chunk_overlap)

\* one file of the chunking loop (lines 178-200): the chunks it adds to
\* all_chunks
Split ==
    /\ sp.phase = "none"
    /\ \E text \in Texts, chunk_size \in 2..MaxChunkSize,
          chunk_overlap \in 0..MaxOverlap :
             sp' = [phase |-> "done", text |-> text, chunk_size |-> chunk_size,
                    chunk_overlap |-> chunk_overlap,
                    skipped |-> SplitOnSeparator(text) = <<>>,
                    chunks |-> IF SplitOnSeparator(text) = <<>> THEN <<>>
                               ELSE SplitText(text, chunk_size, chunk_overlap)]
    /\ UNCHANGED <<idxVars, rr, fa, lexical, gc, hy, ec, cq, ch, ag>>

\* the loop goes on to the next file
SplitEnds ==
    /\ sp.phase = "done"
    /\ sp' = SplitIdle
    /\ UNCHANGED <<idxVars, rr, fa, lexical, gc, hy, ec, cq, ch, ag>>

SplitNext == Split \/ SplitEnds

\* the chunking of a file alone
SpecSplit == Init /\ [][SplitNext]_vars

(***************************************************************************)
(* agents/finance_calculator_agent.py.  A query is a sequence of phrases;  *)
(* a phrase is its wording (kind) and the number n written in it.  Each    *)
(* regular expression of the parsers is the set of the kinds it matches;   *)
(* re.search returns the leftmost match, and the patterns of a list are    *)
(* tried in order.                                                         *)
(***************************************************************************)
NumberKinds ==
    {"invest $N", "$N a month", "invest $N a month", "N months",
     "N each month", "$N at", "principal of $N", "at N%", "N%", "N percent",
     "for N years", "N years"}
WordKinds == {"monthly", "current", "how much"}

Numbers == {0, MaxNumber}

Phrases ==
    {[kind |-> kd, n |-> v] : kd \in NumberKinds, v \in Numbers}
        \cup {[kind |-> kd, n |-> 0] : kd \in WordKinds}

CalcQueries == UNION {[1..len -> Phrases] : len \in 0..MaxPhrases}

\* Python's None, where a number is expected
None == -2

\* monthly_patterns (lines 94-98)
monthly_patterns ==
    <<{"$N a month", "invest $N a month", "N months"},
      {"invest $N", "invest $N a month"},
      {"N each month"}>>

\* principal_patterns (lines 170-174)
principal_patterns ==
    <<{"invest $N", "invest $N a month"}, {"$N at"}, {"principal of $N"}>>

\* rate_patterns (lines 109-113 and 185-189)
rate_patterns == <<{"at N%"}, {"at N%", "N%"}, {"N percent"}>>

\* year_patterns (lines 124-127 and 204-207)
year_patterns == <<{"for N years"}, {"for N years", "N years"}>>

\* monthly_indicators (line 164)
monthly_indicators == {"$N a month", "invest $N a month", "N each month", "monthly"}

\* re.search(pattern, query): the number of the leftmost match, or None
Search(pattern, query) ==
    LET hits == {m \in 1..Len(query) : query[m].kind \in pattern}
    IN  IF hits = {} THEN None
        ELSE query[CHOOSE m \in hits : \A m2 \in hits : m <= m2].n

\* "for pattern in patterns: match = re.search(...); if match: ... break"
RECURSIVE FirstMatch(_, _)
FirstMatch(patterns, query) ==
    IF patterns = <<>> THEN None
    ELSE IF Search(Head(patterns), query) # None
      THEN Search(Head(patterns), query)
      ELSE FirstMatch(Tail(patterns), query)

NoParams == [amount |-> None, annual_rate |-> None, years |-> None, parsed |-> FALSE]

\* parse_investment_query (lines 74-144)
ParseInvestmentQuery(query) ==
    LET monthly_contrib == FirstMatch(monthly_patterns, query)
        annual_rate == FirstMatch(rate_patterns, query)
        years == FirstMatch(year_patterns, query)
    IN  IF monthly_contrib = None \/ annual_rate = None \/ years = None
          THEN NoParams
          ELSE [amount |-> monthly_contrib, annual_rate |-> annual_rate,
                years |-> years, parsed |-> TRUE]

\* "any(indicator in query_lower for indicator in monthly_indicators)"
HasMonthlyIndicator(query) ==
    \E m \in 1..Len(query) : query[m].kind \in monthly_indicators

\* parse_lump_sum_query (lines 147-225): the rate may stay None, and is -1
\* when the query asks for the current rate
ParseLumpSumQuery(query) ==
    LET principal == FirstMatch(principal_patterns, query)
        found_rate == FirstMatch(rate_patterns, query)
        annual_rate == IF found_rate = None
                            /\ \E m \in 1..Len(query) : query[m].kind = "current"
                         THEN -1 ELSE found_rate
        years == FirstMatch(year_patterns, query)
    IN  IF HasMonthlyIndicator(query) THEN NoParams
        ELSE IF principal = None \/ years = None THEN NoParams
        ELSE [amount |-> principal, annual_rate |-> annual_rate,
              years |-> years, parsed |-> TRUE]

\* the result of a calculation that raised, or failed before it
NoNumber == [formula |-> "none"]

\* calculate_future_value (lines 11-71): total_contributed is 0 for no
\* contribution or no year, and the explanation divides by it
CalculateFutureValue(monthly_contrib, annual_rate, years) ==
    LET n == years * 12
        total_contributed == monthly_contrib * n
    IN  IF total_contributed = 0
          THEN [raised |-> TRUE, value |-> NoNumber]
          ELSE [raised |-> FALSE,
                value |-> [formula |-> "annuity", pmt |-> monthly_contrib,
                           rate |-> annual_rate, periods |-> n]]

\* mutant: a missing rate is taken as 0
CalculateCompoundInterest_DefaultRate(principal, annual_rate, years) ==
    IF principal = 0
      THEN [raised |-> TRUE, value |-> NoNumber]
      ELSE [raised |-> FALSE,
            value |-> [formula |-> "compound", pmt |-> principal,
                       rate |-> IF annual_rate = None THEN 0 ELSE annual_rate,
                       periods |-> years * 12]]

\* calculate_compound_interest (lines 344-381): None / 100 raises, and the
\* explanation divides by the principal
CalculateCompoundInterest(principal, annual_rate, years) ==
    IF annual_rate = None \/ principal = 0
      THEN [raised |-> TRUE, value |-> NoNumber]
      ELSE [raised |-> FALSE,
            value |-> [formula |-> "compound", pmt |-> principal,
                       rate |-> annual_rate, periods |-> years * 12]]

\* mutant: the exception of the calculation is not caught
Calculated_Uncaught(calc, params, investment_type) ==
    [success |-> ~calc.raised, result |-> calc.value, parameters |-> params,
     investment_type |-> IF calc.raised THEN "absent" ELSE investment_type,
     needs_live_data |-> FALSE, raised |-> calc.raised]

\* the try statements of lines 289-313 and 332-341
Calculated(calc, params, investment_type) ==
    [success |-> ~calc.raised, result |-> calc.value, parameters |-> params,
     investment_type |-> IF calc.raised THEN "absent" ELSE investment_type,
     needs_live_data |-> FALSE, raised |-> FALSE]

\* run_calculation_query (lines 228-341)
RunCalculationQuery(query) ==
    LET lump_sum_params == ParseLumpSumQuery(query)
        params == ParseInvestmentQuery(query)
    IN  IF lump_sum_params.parsed
          THEN IF lump_sum_params.annual_rate = -1
                 THEN [success |-> FALSE, result |-> NoNumber,
                       parameters |-> lump_sum_params,
                       investment_type |-> "absent",
                       needs_live_data |-> TRUE, raised |-> FALSE]
                 ELSE Calculated(CalculateCompoundInterest(lump_sum_params.amount,
                                     lump_sum_params.annual_rate,
                                     lump_sum_params.years),
                                 lump_sum_params, "lump_sum")
        ELSE IF ~params.parsed
          THEN [success |-> FALSE, result |-> NoNumber, parameters |-> NoParams,
                investment_type |-> "absent", needs_live_data |-> FALSE,
                raised |-> FALSE]
        ELSE Calculated(CalculateFutureValue(params.amount, params.annual_rate,
                                             params.years),
                        params, "monthly")

\* one call of run_calculation_query
Calc ==
    /\ cq.phase = "none"
    /\ \E query \in CalcQueries :
          cq' = [phase |-> "done", query |-> query,
                 out |-> RunCalculationQuery(query)]
    /\ UNCHANGED <<idxVars, rr, fa, lexical, gc, hy, ec, sp, ch, ag>>

\* the caller has the result
CalcEnds ==
    /\ cq.phase = "done"
    /\ cq' = CalcIdle
    /\ UNCHANGED <<idxVars, rr, fa, lexical, gc, hy, ec, sp, ch, ag>>

CalcNext == Calc \/ CalcEnds

\* the calculator alone
SpecCalc == Init /\ [][CalcNext]_vars


(***************************************************************************)
(* retrievers/hybrid_rerank_retriever.py, HybridReranker.                  *)
(* A Document is its page_content and its metadata dictionary; the         *)
(* documents of a list are objects, so that metadata written through one   *)
(* reference is seen through every other reference to the same document.   *)
(* The candidates of a call carry the metadata the vector retriever gives  *)
(* them: the point's payload has no "metadata" entry (source and chunk_id  *)
(* are at its top level), so a document's metadata is the point id and the *)
(* collection name.                                                        *)
(***************************************************************************)
Doc(n) ==
    [page_content |-> n,
     metadata |-> [_id |-> n - 1, _collection_name |-> COLLECTION_NAME]]

\* what base_retriever.get_relevant_documents returns: documents 1..n
BaseDocs(n) == [k \in 1..n |-> Doc(k)]

\* metadata[key] = value
SetKey(m, key, value) ==
    [x \in DOMAIN m \cup {key} |-> IF x = key THEN value ELSE m[x]]

\* metadata.get(key, default)
Get(m, key, default) == IF key \in DOMAIN m THEN m[key] ELSE default

\* docs[index] of Python: a negative index counts from the end
IndexOk(docs, index) == index >= -Len(docs) /\ index < Len(docs)
Position(docs, index) == IF index >= 0 THEN index + 1 ELSE Len(docs) + index + 1

\* what the Cohere client may answer: it raises, or it returns results, each
\* an index into the documents sent and a relevance score
RerankResults(max_len) ==
    UNION {[1..len -> [index : -1..MaxDocs, relevance_score : 1..MaxScore]] :
              len \in 0..max_len}

RerankResponses(max_len) ==
    {[raises |-> TRUE, results |-> <<>>]}
        \cup {[raises |-> FALSE, results |-> r] : r \in RerankResults(max_len)}

(***************************************************************************)
(* The loop of lines 236-244 over rerank_response.results.  st.docs is the *)
(* candidate list with the metadata written so far, st.picked the          *)
(* positions appended to reranked_docs, st.failed whether docs[index]      *)
(* raised.                                                                 *)
(***************************************************************************)
WriteRerankMeta(doc, score, position) ==
    [doc EXCEPT !.metadata =
        SetKey(SetKey(doc.metadata, "rerank_score", score),
               "rerank_position", position)]

RECURSIVE ProcessResults(_, _)
ProcessResults(results, st) ==
    IF results = <<>> \/ st.failed THEN st
    ELSE LET res == Head(results)
         IN  IF ~IndexOk(st.docs, res.index)
               THEN [st EXCEPT !.failed = TRUE]
               ELSE LET pos == Position(st.docs, res.index)
                    IN  ProcessResults(Tail(results),
                          [docs |-> [st.docs EXCEPT ![pos] =
                                       WriteRerankMeta(st.docs[pos],
                                           res.relevance_score,
                                           Len(st.picked) + 1)],
                           picked |-> Append(st.picked, pos),
                           failed |-> FALSE])

\* docs[:top_k]
FirstK(docs, top_k) == SubSeq(docs, 1, Min(top_k, Len(docs)))

\* mutant: the fallback returns every candidate
Fallback_All(docs, top_k) == docs

\* the except clause of lines 251-255
Fallback(docs, top_k) == FirstK(docs, top_k)

(***************************************************************************)
(* get_relevant_documents (lines 202-255): what it returns, whether it     *)
(* raised, whether the rerank step failed, and whether Cohere was called.  *)
(***************************************************************************)
GetRelevantDocuments(base_ok, n, top_k, resp) ==
    LET docs == BaseDocs(n)
        st == ProcessResults(resp.results,
                             [docs |-> docs, picked |-> <<>>, failed |-> FALSE])
        \* line 247 reads reranked_docs[0]
        failed == resp.raises \/ st.failed \/ st.picked = <<>>
    IN  IF ~base_ok
          THEN [returned |-> <<>>, raised |-> TRUE, rerank_failed |-> FALSE,
                rerank_called |-> FALSE]
        ELSE IF docs = <<>>
          THEN [returned |-> <<>>, raised |-> FALSE, rerank_failed |-> FALSE,
                rerank_called |-> FALSE]
        ELSE IF failed
          THEN [returned |-> Fallback(st.docs, top_k), raised |-> FALSE,
                rerank_failed |-> TRUE, rerank_called |-> TRUE]
        ELSE [returned |-> [k \in 1..Len(st.picked) |-> st.docs[st.picked[k]]],
              raised |-> FALSE, rerank_failed |-> FALSE, rerank_called |-> TRUE]

\* one call of HybridReranker.get_relevant_documents
Retrieve ==
    /\ rr.phase = "none"
    /\ \E base_ok \in BOOLEAN, n \in 0..MaxDocs, top_k \in 1..MaxDocs,
          resp \in RerankResponses(MaxResults) :
             rr' = [phase |-> "done", base_ok |-> base_ok,
                    candidates |-> BaseDocs(n), top_k |-> top_k,
                    response |-> resp,
                    out |-> GetRelevantDocuments(base_ok, n, top_k, resp)]
    /\ UNCHANGED <<idxVars, toolVars, fa, lexical, gc, hy>>

\* the caller is done with the returned list; the next request may come
RetrieveEnds ==
    /\ rr.phase = "done"
    /\ rr' = RerankIdle
    /\ UNCHANGED <<idxVars, toolVars, fa, lexical, gc, hy>>

RerankNext == Retrieve \/ RetrieveEnds

\* the reranking retriever alone
SpecRerank == Init /\ [][RerankNext]_vars

(***************************************************************************)
(* retrievers/hybrid_rerank_retriever.py, the hybrid retriever: the BM25   *)
(* retriever over the documents of load_documents_for_bm25, the vector     *)
(* retriever over the collection, and the EnsembleRetriever that fuses     *)
(* their lists.                                                            *)
(***************************************************************************)
\* f.read(): the text of a whole file.  A text that fits one chunk and has
\* nothing for split_text to drop is its own only chunk; any other text is
\* none of its chunks
FileText(f) ==
    IF f.nchunks = 1 /\ ~f.padded THEN <<f.name, f.rev, 0>>
                                   ELSE <<f.name, f.rev, -1>>

\* the loop of lines 62-78: one Document per file that can be read and is
\* not blank, its page_content the whole text
RECURSIVE Bm25Documents(_)
Bm25Documents(files) ==
    IF files = <<>> THEN <<>>
    ELSE LET f == files[Len(files)]
         IN  Bm25Documents(SubSeq(files, 1, Len(files) - 1))
                \o (IF f.readable /\ f.nchunks > 0
                      THEN <<[page_content |-> FileText(f),
                              metadata |-> [source |-> f.name,
                                            file_path |-> f.name]]>>
                      ELSE <<>>)

\* load_documents_for_bm25 (lines 42-81)
LoadDocumentsForBm25(dir) ==
    IF ~dir.exists THEN <<>> ELSE Bm25Documents(dir.files)

\* the Document the vector retriever makes of a point of the collection
\* (content_payload_key="text", lines 135-140)
VectorDocument(p) ==
    [page_content |-> p.payload.text,
     metadata |-> [_id |-> p.id, _collection_name |-> COLLECTION_NAME]]

\* the points of a corpus indexed without a failure
IndexedPoints(files) ==
    LET chunks == ChunksOf(files)
    IN  SubSeq([m \in 1..Len(chunks) |-> MakePoint(m - 1, 0, m - 1, chunks[m])],
               1, Len(chunks))

(***************************************************************************)
(* The corpus of the hybrid retrievals: INITIAL_K files, the first sh of   *)
(* them of one chunk (such a chunk is in the lexical index, as its file,   *)
(* and in the vector index), every second of these padded, the others of   *)
(* two chunks.                                                             *)
(***************************************************************************)
FileName(j) == "file" \o ToString(j) \o ".txt"

HybridFile(j, sh) ==
    LET f == File(FileName(j), 1, IF j <= sh THEN 1 ELSE 2, TRUE)
    IN  IF j % 2 = 0 THEN Padded(f) ELSE f

HybridCorpus(sh) == Dir([j \in 1..INITIAL_K |-> HybridFile(j, sh)])

\* bm25_retriever (k = INITIAL_K, line 127): the nl best documents, here
\* the first nl files, the last of them best
LexicalCandidates(nl, sh) ==
    LET docs == LoadDocumentsForBm25(HybridCorpus(sh))
    IN  SubSeq([r \in 1..nl |-> docs[nl + 1 - r]], 1, nl)

\* vector_retriever (k = INITIAL_K, line 142): the nv closest points, here
\* the first nv of the collection
VectorCandidates(nv, sh) ==
    LET pts == IndexedPoints(HybridCorpus(sh).files)
    IN  SubSeq([r \in 1..nv |-> VectorDocument(pts[r])], 1, nv)

(***************************************************************************)
(* EnsembleRetriever (lines 147-150): weighted reciprocal rank fusion.     *)
(* A document's score is the sum, over the lists that hold a document of   *)
(* its page_content, of weight / (rank + c); the documents of the two      *)
(* lists, unique by page_content in the order BM25 list then vector list,  *)
(* are sorted by score, highest first, equal scores keeping that order.    *)
(* The result is not cut to any length.                                    *)
(***************************************************************************)
\* the rank (from 1) of the document of this page_content, 0 if there is none
RankIn(list, content) ==
    IF \E r \in 1..Len(list) : list[r].page_content = content
      THEN CHOOSE r \in 1..Len(list) : list[r].page_content = content
      ELSE 0

\* the score as a fraction, in tenths
RrfScore(lex, vec, content) ==
    LET rl == RankIn(lex, content)
        rv == RankIn(vec, content)
    IN  IF rl > 0 /\ rv > 0
          THEN [num |-> BM25_WEIGHT * (rv + RRF_C) + VECTOR_WEIGHT * (rl + RRF_C),
                den |-> (rl + RRF_C) * (rv + RRF_C)]
        ELSE IF rl > 0 THEN [num |-> BM25_WEIGHT, den |-> rl + RRF_C]
        ELSE [num |-> VECTOR_WEIGHT, den |-> rv + RRF_C]

ScoreGreater(a, b) == a.num * b.den > b.num * a.den

\* unique_by_key over the chained lists, the key being page_content
UniqueByContent(lex, vec) ==
    LET NotInLex(d) == RankIn(lex, d.page_content) = 0
    IN  lex \o SelectSeq(vec, NotInLex)

WeightedReciprocalRank(lex, vec) ==
    LET u == UniqueByContent(lex, vec)
        m == Len(u)
        sc == SubSeq([n \in 1..m |-> RrfScore(lex, vec, u[n].page_content)], 1, m)
        pos == SubSeq([n \in 1..m |->
                  1 + Cardinality({q \in 1..m :
                         \/ ScoreGreater(sc[q], sc[n])
                         \/ (q < n /\ ~ScoreGreater(sc[n], sc[q]))})], 1, m)
    IN  SubSeq([r \in 1..m |-> u[CHOOSE n \in 1..m : pos[n] = r]], 1, m)

\* a response of Cohere that keeps the order of the first top_n documents
KeepOrderResponse(ndocs, top_n) ==
    [raises |-> FALSE,
     results |-> [r \in 1..Min(top_n, ndocs) |->
                     [index |-> r - 1, relevance_score |-> MaxScore]]]

\* HybridReranker.get_relevant_documents over the fused list (lines 215-255)
RerankFused(fused, top_k, resp) ==
    LET st == ProcessResults(resp.results,
                             [docs |-> fused, picked |-> <<>>, failed |-> FALSE])
    IN  IF fused = <<>> THEN <<>>
        ELSE IF resp.raises \/ st.failed \/ st.picked = <<>>
          THEN Fallback(st.docs, top_k)
        ELSE [r \in 1..Len(st.picked) |-> st.docs[st.picked[r]]]

\* one quality-mode retrieval with k = FINAL_K: the two candidate lists, the
\* fused list handed to the reranker, and what the reranker returns
HybridRetrieve ==
    /\ hy.phase = "none"
    /\ \E nl, nv \in 0..INITIAL_K, sh \in 0..MaxShared, rerank_ok \in BOOLEAN :
          LET lex == LexicalCandidates(nl, sh)
              vec == VectorCandidates(nv, sh)
              fused == WeightedReciprocalRank(lex, vec)
              resp == IF rerank_ok THEN KeepOrderResponse(Len(fused), FINAL_K)
                                   ELSE [raises |-> TRUE, results |-> <<>>]
          IN  hy' = [phase |-> "done", sh |-> sh, lex |-> lex, vec |-> vec,
                     fused |-> fused, rerank_ok |-> rerank_ok,
                     result |-> RerankFused(fused, FINAL_K, resp)]
    /\ UNCHANGED <<idxVars, toolVars, rr, fa, lexical, gc>>

\* the caller is done with the result
HybridRetrieveEnds ==
    /\ hy.phase = "done"
    /\ hy' = HybridIdle
    /\ UNCHANGED <<idxVars, toolVars, rr, fa, lexical, gc>>

HybridNext == HybridRetrieve \/ HybridRetrieveEnds

\* the hybrid retriever alone
SpecHybrid == Init /\ [][HybridNext]_vars

(***************************************************************************)
(* rag_pipeline.py, get_retriever and get_finance_answer.                  *)
(***************************************************************************)
Queries == {"What is compound interest?", "What is a 401k?"}
Modes == {"base", "advanced", "quality"}

\* mutant: the mode "quality" also selects the hybrid retriever
Strategy_AlsoQuality(mode) == IF mode \in {"advanced", "quality"} THEN "advanced" ELSE "base"

\* get_retriever (lines 441-443)
Strategy(mode) == IF mode = "advanced" THEN "advanced" ELSE "base"

\* the documents of the similarity-search retriever: LangChain's Qdrant store
\* takes page_content from payload["text"] and the metadata from
\* payload["metadata"], adding the point id and the collection name
VectorDocs(n) ==
    [k \in 1..n |-> [page_content |-> k,
                     metadata |-> [_id |-> k - 1, _collection_name |-> COLLECTION_NAME]]]

\* the corpus whose points the collection of the answer flow holds, and the
\* point stored under an id (load_knowledge, lines 235-245)
AnswerCorpus == <<File("a.txt", 1, 2, TRUE), File("b.txt", 1, MaxDocs, TRUE)>>

StoredAs(id) ==
    LET pts == IndexedPoints(AnswerCorpus)
    IN  pts[CHOOSE m \in 1..Len(pts) : pts[m].id = id]

\* what retriever.get_relevant_documents(query) can do (line 501)
RetrievalOutcomes(strategy, k) ==
    IF strategy = "advanced"
      THEN {GetRelevantDocuments(base_ok, n, k, resp) :
               base_ok \in BOOLEAN, n \in 0..MaxDocs,
               resp \in RerankResponses(MaxAnswerResults)}
      ELSE {[returned |-> <<>>, raised |-> TRUE, rerank_failed |-> FALSE,
             rerank_called |-> FALSE]}
           \cup {[returned |-> VectorDocs(n), raised |-> FALSE,
                  rerank_failed |-> FALSE, rerank_called |-> FALSE] :
                    n \in 0..Min(k, MaxDocs)}

\* the entries of "sources" (lines 533-545); the texts of the model are
\* shorter than the 200 characters after which the text is cut
Sources(docs) ==
    [n \in 1..Len(docs) |->
        [source |-> Get(docs[n].metadata, "source", "unknown"),
         chunk_id |-> Get(docs[n].metadata, "chunk_id", 0),
         score |-> Get(docs[n].metadata, "score", 0),
         text |-> docs[n].page_content]]

Answer(answer, sources, query, model, mode) ==
    [answer |-> answer, sources |-> sources, query |-> query, model |-> model,
     mode |-> mode]

\* mutant: the check for an empty retrieval is missing
NoDocs_Never(docs) == FALSE

\* "if not docs" (line 503)
NoDocs(docs) == docs = <<>>

(***************************************************************************)
(* get_finance_answer (lines 483-623): the dictionary returned and the     *)
(* calls made, given what the collaborators do.  build_ok: get_retriever   *)
(* returned; out: the outcome of the retrieval; llm_ok: chain.invoke       *)
(* returned.  built: get_retriever was called; retrieval: "none" when      *)
(* retriever.get_relevant_documents was not called.                        *)
(***************************************************************************)
GetFinanceAnswer(query, k, mode, api_key, build_ok, out, llm_ok) ==
    LET failed(retrieval, llm_calls) ==
            [result |-> Answer("error", <<>>, query, "error", mode),
             retrieval |-> retrieval, docs |-> <<>>, llm_calls |-> llm_calls,
             raised |-> FALSE, built |-> TRUE]
    IN  IF ~api_key
          THEN [result |-> Answer("api key not configured", <<>>, query, "error", mode),
                retrieval |-> "none", docs |-> <<>>, llm_calls |-> 0,
                raised |-> FALSE, built |-> FALSE]
        ELSE IF ~build_ok THEN failed("none", 0)
        ELSE IF out.raised THEN failed("raised", 0)
        ELSE IF NoDocs(out.returned)
          THEN [result |-> Answer("no relevant information", <<>>, query,
                                  CHAT_MODEL, mode),
                retrieval |-> "ok", docs |-> out.returned, llm_calls |-> 0,
                raised |-> FALSE, built |-> TRUE]
        ELSE IF ~llm_ok THEN [failed("ok", 1) EXCEPT !.docs = out.returned]
        ELSE [result |-> Answer("generated", Sources(out.returned), query,
                                CHAT_MODEL, mode),
              retrieval |-> "ok", docs |-> out.returned, llm_calls |-> 1,
              raised |-> FALSE, built |-> TRUE]

\* whether the call builds a BM25 index: get_retriever is reached with the
\* key (line 497) and, for the advanced strategy, build_hybrid_rerank_retriever
\* runs BM25Retriever.from_documents (line 126) unless it raised before (a
\* missing Cohere key, no documents); late_failure: it raised after line 126
Bm25Built(api_key, strategy, build_ok, late_failure) ==
    api_key /\ strategy = "advanced" /\ (build_ok \/ late_failure)

\* one call of get_finance_answer
Ask ==
    /\ fa.phase = "none"
    /\ \E query \in Queries, k \in 1..MaxDocs, mode \in Modes,
          api_key, build_ok, llm_ok, late_failure \in BOOLEAN :
          \E out \in RetrievalOutcomes(Strategy(mode), k) :
             LET built == Bm25Built(api_key, Strategy(mode), build_ok, late_failure)
             IN  /\ built => lexical.builds < MaxBuilds
                 /\ late_failure => (built /\ ~build_ok)
                 /\ fa' = [phase |-> "done", query |-> query, k |-> k,
                           mode |-> mode, strategy |-> Strategy(mode),
                           api_key |-> api_key,
                           call |-> GetFinanceAnswer(query, k, mode, api_key,
                                                     build_ok, out, llm_ok)]
                 /\ lexical' = [builds |-> lexical.builds + (IF built THEN 1 ELSE 0)]
    /\ UNCHANGED <<idxVars, toolVars, rr, gc, hy>>

\* the caller has the answer; the next question may come
AskEnds ==
    /\ fa.phase = "done"
    /\ fa' = AnswerIdle
    /\ UNCHANGED <<idxVars, toolVars, rr, lexical, gc, hy>>

AnswerNext == Ask \/ AskEnds

\* the answer flow alone
SpecAnswer == Init /\ [][AnswerNext]_vars

(***************************************************************************)
(* agents/tools.py and agents/agent_orchestrator.py: run_agent_query and   *)
(* the module-level list _tools_invoked of the tools.  The agent is built  *)
(* without return_intermediate_steps, so its result has no                 *)
(* "intermediate_steps" and tool_used is read from the tracker (lines      *)
(* 133-139).  Nothing serialises the callers.                              *)
(***************************************************************************)
ToolNames == {"finance_calculator_tool", "tavily_search_tool", "rag_tool"}

\* the requests in progress other than that of thread t
OthersRunning(t) == {u \in Agents \ {t} : ag.pc[u] = "agent"}

\* the dictionary's tool_used: the names of the tracker ("none" is the
\* empty list), here with the request each name came from
ToolUsed(req, tracked) ==
    [req |-> req,
     tool_used |-> [n \in 1..Len(tracked) |-> tracked[n].tool],
     from |-> [n \in 1..Len(tracked) |-> tracked[n].by]]

\* lines 46-58: reset_last_tool_invoked(), then the check of the API key
AQ_Start(t, api_key) ==
    /\ ag.pc[t] = "out"
    /\ ag.queries < MaxQueries
    /\ LET req == ag.queries + 1
           quiet == OthersRunning(t) = {}
       IN  ag' = [ag EXCEPT
                    !.tracker = <<>>,
                    !.queries = req,
                    !.req[t] = req,
                    !.alone = [u \in Agents |-> IF u = t THEN quiet
                                                ELSE IF ag.pc[u] = "agent" THEN FALSE
                                                ELSE ag.alone[u]],
                    !.pc[t] = IF api_key THEN "agent" ELSE "out",
                    !.returned[t] = IF api_key THEN ag.returned[t]
                                               ELSE ToolUsed(req, <<>>)]
    /\ UNCHANGED <<idxVars, rr, fa, lexical, gc, hy, ec, sp, cq, ch>>

\* the agent of thread t calls a tool, whose first statement appends the
\* tool's name to _tools_invoked (tools.py lines 83-84, 127-128, 187-188)
AQ_ToolInvoked(t, tool) ==
    /\ ag.pc[t] = "agent"
    /\ ag.tool_calls < MaxToolCalls
    /\ ag' = [ag EXCEPT
                 !.tracker = Append(ag.tracker, [tool |-> tool, by |-> ag.req[t]]),
                 !.tool_calls = @ + 1]
    /\ UNCHANGED <<idxVars, rr, fa, lexical, gc, hy, ec, sp, cq, ch>>

\* lines 113-155: the agent returned and tool_used is read from
\* get_all_tools_invoked(); or (lines 157-173) an exception was caught and
\* tool_used is "none"
AQ_Finish(t, ok) ==
    /\ ag.pc[t] = "agent"
    /\ ag' = [ag EXCEPT
                 !.pc[t] = "out",
                 !.returned[t] = ToolUsed(ag.req[t],
                                          IF ok THEN ag.tracker ELSE <<>>)]
    /\ UNCHANGED <<idxVars, rr, fa, lexical, gc, hy, ec, sp, cq, ch>>

\* a tool function is called outside run_agent_query (the test harness of
\* tools.py, another caller of the Tool objects)
ToolCalledOutside(tool) ==
    /\ ag.tool_calls < MaxToolCalls
    /\ ag' = [ag EXCEPT
                 !.tracker = Append(ag.tracker, [tool |-> tool, by |-> 0]),
                 !.tool_calls = @ + 1,
                 !.alone = [u \in Agents |-> IF ag.pc[u] = "agent" THEN FALSE
                                                ELSE ag.alone[u]]]
    /\ UNCHANGED <<idxVars, rr, fa, lexical, gc, hy, ec, sp, cq, ch>>

AgentNext ==
    \/ \E t \in Agents, api_key \in BOOLEAN : AQ_Start(t, api_key)
    \/ \E t \in Agents, tool \in ToolNames : AQ_ToolInvoked(t, tool)
    \/ \E t \in Agents, ok \in BOOLEAN : AQ_Finish(t, ok)
    \/ \E tool \in ToolNames : ToolCalledOutside(tool)

\* the agent queries alone
SpecAgent == Init /\ [][AgentNext]_vars

(***************************************************************************)
(* main.py, POST /api/chat (lines 108-196).                                *)
(***************************************************************************)
\* the wordings that hold one of calculation_keywords (lines 133-137)
calculation_keywords == {"invest $N", "invest $N a month", "monthly"}

\* "any(keyword in question_lower for keyword in calculation_keywords)"
IsCalculation(question) ==
    \E m \in 1..Len(question) : question[m].kind \in calculation_keywords

\* the questions of the chat requests
ChatKinds ==
    {"invest $N", "invest $N a month", "$N a month", "monthly", "at N%",
     "for N years", "how much"}
ChatPhrases == {ph \in Phrases : ph.kind \in ChatKinds}
ChatQuestions == UNION {[1..len -> ChatPhrases] : len \in 0..MaxPhrases}

\* mutant: a question with a keyword is answered by the calculator whether
\* or not the calculation succeeded
Route_KeywordOnly(is_calculation, calc_success) ==
    IF is_calculation THEN "calculator" ELSE "rag"

\* lines 142-172: the calculator's answer is returned when the question has
\* a keyword and the calculation succeeded; every other request goes on to
\* the RAG pipeline
Route(is_calculation, calc_success) ==
    IF is_calculation /\ calc_success THEN "calculator" ELSE "rag"

\* the handler: the response, and the calls it made.  rag is what
\* get_finance_answer does when it is called
ChatHandler(question, rag) ==
    LET is_calculation == IsCalculation(question)
        calc_result == RunCalculationQuery(question)
        tool == Route(is_calculation, is_calculation /\ calc_result.success)
    IN  IF tool = "calculator"
          THEN [calc_called |-> TRUE, rag_called |-> FALSE,
                response |-> [status |-> 200, tool |-> "calculator",
                              model |-> "calculator_agent",
                              answer |-> calc_result.result,
                              sources |-> <<"financial_calculator">>,
                              query |-> question]]
        ELSE IF rag.raised
          THEN [calc_called |-> is_calculation, rag_called |-> TRUE,
                response |-> [status |-> 500, tool |-> "none", model |-> "none",
                              answer |-> "Error processing question",
                              sources |-> <<>>, query |-> question]]
        ELSE [calc_called |-> is_calculation, rag_called |-> TRUE,
              response |-> [status |-> 200, tool |-> "rag",
                            model |-> rag.result.model,
                            answer |-> rag.result.answer,
                            sources |-> rag.result.sources,
                            query |-> rag.result.query]]

\* one request; get_finance_answer is called in its default mode "base"
\* (lines 176-179)
Chat ==
    /\ ch.phase = "none"
    /\ \E question \in ChatQuestions, k \in 1..MaxDocs,
          api_key, build_ok, llm_ok \in BOOLEAN :
          \E out \in RetrievalOutcomes(Strategy("base"), k) :
             ch' = [phase |-> "done", question |-> question,
                    call |-> ChatHandler(question,
                               GetFinanceAnswer(question, k, "base", api_key,
                                                build_ok, out, llm_ok))]
    /\ UNCHANGED <<idxVars, rr, fa, lexical, gc, hy, ec, sp, cq, ag>>

\* the response has been sent
ChatEnds ==
    /\ ch.phase = "done"
    /\ ch' = ChatIdle
    /\ UNCHANGED <<idxVars, rr, fa, lexical, gc, hy, ec, sp, cq, ag>>

ChatNext == Chat \/ ChatEnds

\* the chat endpoint alone
SpecChat == Init /\ [][ChatNext]_vars

(***************************************************************************)
(* main.py: the endpoints are coroutines that call load_knowledge and      *)
(* get_finance_answer without awaiting, so the server handles one request  *)
(* at a time.  The two operations share no variable of this model (what a  *)
(* retrieval returns is an input of Ask), so each is followed from the     *)
(* process's first state only: the questions are asked before the first    *)
(* reload has returned, and the reloads run in a process that has built no *)
(* BM25 index; the other orders meet no new case.                          *)
(***************************************************************************)
\* POST /api/reload_knowledge (main.py line 245): the steps of a run
Service_Reload ==
    /\ fa.phase = "none"
    /\ lexical = NoLexical
    /\ IndexNext

\* POST /api/chat (main.py lines 176-179)
Service_Ask ==
    /\ pc = "idle"
    /\ runs = 0
    /\ Ask

\* the response has been sent
Service_AskEnds ==
    /\ pc = "idle"
    /\ AskEnds

ServiceNext == Service_Reload \/ Service_Ask \/ Service_AskEnds

\* the indexing flow and the answer flow in one process
SpecService == Init /\ [][ServiceNext]_vars

(***************************************************************************)
(* Properties of the indexing flow.                                        *)
(***************************************************************************)
RunEnded == pc = "idle" /\ runs > 0

LastUpsertFailed ==
    upsert_calls # <<>> /\ ~upsert_calls[Len(upsert_calls)].ok

RECURSIVE SumOkSizes(_)
SumOkSizes(calls) ==
    IF calls = <<>> THEN 0
    ELSE SumOkSizes(Tail(calls)) + (IF Head(calls).ok THEN Head(calls).size ELSE 0)

PointIds == {points[k].id : k \in 1..Len(points)}

\* C2: upsert batches of at most 100 points are issued one at a time in
\* ascending order; after a batch for which upsert_points returned False no
\* further batch is upserted in the run, and the run returns success=false.
C2_UpsertInOrderAbortOnFailure ==
    /\ \A n \in 1..Len(upsert_calls) :
          /\ upsert_calls[n].batch_num = n
          /\ upsert_calls[n].first = (n - 1) * upsert_batch_size
          /\ upsert_calls[n].size \in 1..upsert_batch_size
          /\ n < Len(upsert_calls) => upsert_calls[n].ok
    /\ LastUpsertFailed => (pc = "idle" /\ ~lk_result.success)

\* a run ended at its first upsert batch while a second batch was waiting
C2_Witness ==
    /\ RunEnded
    /\ Len(upsert_calls) = 1
    /\ LastUpsertFailed
    /\ Len(points) > upsert_batch_size

\* C3: when upsert batch n fails the run returns a non-success whose
\* vectors_indexed is the number of points of batches 1..n-1 (all of them in
\* the collection) and whose documents_processed and chunks_created are the
\* counts of the chunking phase.
C3_FailedUpsertReportsProgress ==
    (RunEnded /\ LastUpsertFailed) =>
        /\ ~lk_result.success
        /\ lk_result.vectors_indexed = SumOkSizes(upsert_calls)
        /\ lk_result.vectors_indexed = (Len(upsert_calls) - 1) * upsert_batch_size
        /\ \A k \in 1..lk_result.vectors_indexed : points[k] \in coll
        /\ lk_result.documents_processed = DocsOf(started.disk.files)
        /\ lk_result.chunks_created = Len(ChunksOf(started.disk.files))

\* the second upsert batch failed after the first one was written
C3_Witness ==
    /\ RunEnded
    /\ Len(upsert_calls) = 2
    /\ LastUpsertFailed
    /\ lk_result.vectors_indexed = upsert_batch_size
    /\ lk_result.chunks_created > upsert_batch_size

\* C4 as stated: an embedding failure aborts the run at that batch: no later
\* batch is embedded or upserted and the run returns a non-success.
C4_EmbedFailureAborts ==
    \A n \in 1..Len(embed_calls) :
        ~embed_calls[n].ok =>
            /\ n = Len(embed_calls)
            /\ upsert_calls = <<>>
            /\ pc = "idle" => ~lk_result.success

\* C4 amended: an embedding failure only skips that batch's chunks; every
\* batch of the chunk list is still attempted in order, the points are those
\* of the batches that were embedded, and the run returns the non-success
\* "Embedding generation failed" (vectors_indexed 0, nothing upserted) exactly
\* when no batch at all was embedded; otherwise it goes on to the upsert.
C4_EmbedFailureSkipsBatch ==
    /\ \A n \in 1..Len(embed_calls) : embed_calls[n].i = (n - 1) * batch_size
    /\ (pc = "upsert" \/ (pc = "idle" /\ embed_calls # <<>>)) =>
          Len(embed_calls) = (Len(all_chunks) + batch_size - 1) \div batch_size
    /\ PointIds = {m \in 0..(Len(all_chunks) - 1) :
                      \E n \in 1..Len(embed_calls) :
                          /\ embed_calls[n].ok
                          /\ m \in embed_calls[n].i..(embed_calls[n].i + batch_size - 1)}
    /\ (pc = "idle" /\ embed_calls # <<>>) =>
          /\ (lk_result.error = "Embedding generation failed")
                <=> (\A n \in 1..Len(embed_calls) : ~embed_calls[n].ok)
          /\ (lk_result.error = "Embedding generation failed") =>
                /\ lk_result = Result(FALSE, "Embedding generation failed",
                                      documents_processed, Len(all_chunks), 0)
                /\ upsert_calls = <<>>
                /\ coll = started.coll
          /\ (\E n \in 1..Len(embed_calls) : embed_calls[n].ok) => upsert_calls # <<>>

\* a run in which an embedding batch failed and which still returned success
C4_Witness ==
    /\ RunEnded
    /\ EmbedFailures > 0
    /\ lk_result.success
    /\ lk_result.vectors_indexed < lk_result.chunks_created

\* C5 as stated: success=true implies vectors_indexed = chunks_created.
C5_SuccessAllChunksIndexed ==
    (RunEnded /\ lk_result.success) =>
        lk_result.vectors_indexed = lk_result.chunks_created

\* C5 amended: success=true implies that vectors_indexed is the number of
\* points built by the embedding batches that succeeded, every one of them
\* upserted; it is at most chunks_created and equals it exactly when no
\* embedding batch failed.
C5_SuccessAllPointsIndexed ==
    (RunEnded /\ lk_result.success) =>
        /\ lk_result.vectors_indexed = Len(points)
        /\ lk_result.chunks_created = Len(all_chunks)
        /\ lk_result.vectors_indexed <= lk_result.chunks_created
        /\ (lk_result.vectors_indexed = lk_result.chunks_created) <=> (EmbedFailures = 0)
        /\ \A k \in 1..Len(points) : points[k] \in coll

\* the scenario of 2 documents, 10 chunks, 10 vectors
C5_Witness ==
    /\ RunEnded
    /\ lk_result = Result(TRUE, "", 2, 10, 10)
    /\ Cardinality(coll) >= 10


\* C6: point ids are the chunks' positions in the run's chunk list, so a run
\* over the corpus that the run before it indexed completely leaves the
\* collection exactly as that run left it (same ids, same payloads).
C6_ReindexIdempotent ==
    /\ \A k \in 1..Len(points) :
          /\ points[k].id \in 0..(Len(all_chunks) - 1)
          /\ points[k].payload = all_chunks[points[k].id + 1]
    /\ ( /\ RunEnded
         /\ runs >= 2
         /\ started.disk = started.prev_disk
         /\ started.prev_result.success
         /\ started.prev_result.vectors_indexed = started.prev_result.chunks_created )
       => coll = started.coll

\* two complete runs over the same corpus
C6_Witness ==
    /\ RunEnded
    /\ runs >= 2
    /\ started.disk = started.prev_disk
    /\ started.prev_result.success
    /\ started.prev_result.vectors_indexed = started.prev_result.chunks_created
    /\ lk_result.success
    /\ upsert_calls # <<>>
    /\ coll # {}
    /\ coll = started.coll

\* C7 as stated: after a run that returned success=true the collection holds
\* exactly one entry per chunk of that run's corpus and nothing else.
C7_CollectionIsLastCorpus ==
    (RunEnded /\ lk_result.success) =>
        /\ {p.payload : p \in coll} = Range(ChunksOf(started.disk.files))
        /\ Cardinality(coll) = Len(ChunksOf(started.disk.files))

\* C7 amended: after a run that returned success=true the collection holds,
\* for every chunk whose embedding batch succeeded, exactly one entry, under
\* the chunk's position as id and with the chunk's payload; the rest of the
\* collection is what earlier runs left under ids this run did not write.
C7_CollectionKeepsOlderEntries ==
    (RunEnded /\ lk_result.success) =>
        /\ \A k \in 1..Len(points) : points[k] \in coll
        /\ \A p, q \in coll : p.id = q.id => p = q
        /\ \A p \in started.coll : p.id \notin PointIds => p \in coll
        /\ coll \subseteq (started.coll \cup Range(points))

\* a complete run over a smaller corpus, after which entries of the larger
\* corpus indexed before are still in the collection
C7_Witness ==
    /\ RunEnded
    /\ lk_result.success
    /\ EmbedFailures = 0
    /\ \E p \in coll : p.id >= Len(all_chunks)

\* C8: after a run with force_rebuild=True that returned success, no entry
\* that was in the collection before the call and that this run did not
\* produce is left.
C8_ForceRebuildClears ==
    (RunEnded /\ force_rebuild /\ lk_result.success) =>
        \A p \in started.coll : p \notin Range(points) => p \notin coll

\* the failures that end a run before it looks at the corpus
PreErrors == {"OPENAI_API_KEY not set", "Qdrant connection failed",
              "Failed to create collection"}

\* C9 as stated: a run over a directory without text files reports no error
\* and all counts zero.
C9_EmptyCorpusNoError ==
    (RunEnded /\ started.disk = Dir(<<>>) /\ lk_result.error \notin PreErrors) =>
        /\ lk_result.error = ""
        /\ lk_result.documents_processed = 0
        /\ lk_result.chunks_created = 0
        /\ lk_result.vectors_indexed = 0

\* C9 amended: a run over a directory without text files returns
\* success=false with the error "No text files found" and all counts zero;
\* it embeds and upserts nothing and leaves the (ensured) collection as it was.
C9_EmptyCorpusReportsNoFiles ==
    (RunEnded /\ started.disk = Dir(<<>>) /\ lk_result.error \notin PreErrors) =>
        /\ lk_result = Result(FALSE, "No text files found", 0, 0, 0)
        /\ embed_calls = <<>>
        /\ upsert_calls = <<>>
        /\ coll_exists
        /\ coll = started.coll

\* a run over an existing, empty directory
C9_Witness ==
    /\ RunEnded
    /\ started.disk = Dir(<<>>)
    /\ lk_result.error = "No text files found"


\* the retrieval units of the lexical index built from a directory
LexicalUnits(dir) ==
    {[source |-> d.metadata.source, text |-> d.page_content] :
        d \in Range(LoadDocumentsForBm25(dir))}

\* the retrieval units the run built for the vector collection
VectorUnits ==
    {[source |-> p.payload.source, text |-> p.payload.text] : p \in Range(points)}

\* C19: the lexical index is over the same chunk corpus as the vector index:
\* the units (source, text) load_documents_for_bm25 yields for a corpus are
\* the chunks a complete run of load_knowledge writes for that corpus.
C19_LexicalCorpusIsChunkCorpus ==
    (RunEnded /\ lk_result.success /\ EmbedFailures = 0) =>
        /\ LexicalUnits(started.disk) = VectorUnits
        /\ \A k \in 1..Len(points) : points[k] \in coll


(***************************************************************************)
(* Properties of the reranking retriever.                                  *)
(***************************************************************************)
\* C1: whenever the rerank call or the processing of its response fails, the
\* method does not raise and returns the first top_k documents of the
\* pre-rerank candidate list, in order and unmodified (no rerank metadata).
C1_FallbackReturnsCandidatesUnmodified ==
    (rr.phase = "done" /\ rr.out.rerank_failed) =>
        /\ ~rr.out.raised
        /\ rr.out.returned = FirstK(rr.candidates, rr.top_k)

\* the part of C1 that the code keeps: the fallback returns the first top_k
\* candidates in their order, whatever their metadata
C1_FallbackKeepsOrder ==
    (rr.phase = "done" /\ rr.out.rerank_failed) =>
        /\ ~rr.out.raised
        /\ Len(rr.out.returned) = Min(rr.top_k, Len(rr.candidates))
        /\ \A k \in 1..Len(rr.out.returned) :
              rr.out.returned[k].page_content = rr.candidates[k].page_content


C12_SearchFailureReturnsEmpty ==
    (rr.phase = "done" /\ ~rr.base_ok) =>
        /\ ~rr.out.raised
        /\ rr.out.returned = <<>>


(***************************************************************************)
(* Properties of the answer flow.                                          *)
(***************************************************************************)
\* C10: when the retrieval returns zero documents, get_finance_answer
\* returns the fixed "could not find relevant information" answer with an
\* empty sources list, is not an error result, and does not invoke the
\* answer-generating LLM.
C10_NoDocsNeutralAnswer ==
    (fa.phase = "done" /\ fa.call.retrieval = "ok" /\ fa.call.docs = <<>>) =>
        /\ fa.call.result = Answer("no relevant information", <<>>, fa.query,
                                   CHAT_MODEL, fa.mode)
        /\ fa.call.result.model # "error"
        /\ ~fa.call.raised
        /\ fa.call.llm_calls = 0

\* a base-mode question against an index that returns nothing
C10_Witness ==
    /\ fa.phase = "done"
    /\ fa.strategy = "base"
    /\ fa.call.retrieval = "ok"
    /\ fa.call.docs = <<>>
    /\ fa.call.result.answer = "no relevant information"

\* entry a may stand right before entry b: a higher score, or the same score
\* and a lower sequence index, or the same of both and another source (of
\* two source names the model tells only whether they differ)
Before(a, b) ==
    \/ a.score > b.score
    \/ /\ a.score = b.score
       /\ \/ a.chunk_id < b.chunk_id
          \/ (a.chunk_id = b.chunk_id /\ a.source # b.source)

\* what a retrieved document says of its score and its chunk: the rerank
\* score where the reranker wrote one, else the "score" entry
RankKey(doc) ==
    [score |-> Get(doc.metadata, "rerank_score", Get(doc.metadata, "score", 0)),
     chunk_id |-> Get(doc.metadata, "chunk_id", 0),
     source |-> Get(doc.metadata, "source", "unknown")]

\* C18: across the quality-mode questions of a process the lexical index is
\* constructed at most once; no question rebuilds it.
C18_LexicalIndexBuiltOnce == lexical.builds <= 1

\* C16: every retrieval result is in strictly decreasing order of its final
\* relevance score, equal scores in ascending order of sequence_index and
\* then of source_id: the retrieved documents (reranked or fallen back) and
\* the scores reported in the sources of get_finance_answer.
C16_ResultsOrdered ==
    (fa.phase = "done" /\ fa.call.retrieval = "ok") =>
        /\ \A n \in 1..(Len(fa.call.docs) - 1) :
              Before(RankKey(fa.call.docs[n]), RankKey(fa.call.docs[n + 1]))
        /\ \A n \in 1..(Len(fa.call.result.sources) - 1) :
              Before(fa.call.result.sources[n], fa.call.result.sources[n + 1])


(***************************************************************************)
(* Properties of the two flows together.                                   *)
(***************************************************************************)
LoadKnowledgeKeys ==
    {"success", "documents_processed", "chunks_created", "vectors_indexed"}

AnswerKeys == {"answer", "sources", "query", "model", "mode"}

\* C11: load_knowledge and get_finance_answer never raise, whatever the
\* store, the embedding API, the reranker or the chat model does: every run
\* of load_knowledge ends in a dictionary with success, documents_processed,
\* chunks_created and vectors_indexed, and every call of get_finance_answer
\* in a dictionary with answer, sources, query, model and mode.
C11_NeverRaise ==
    /\ RunEnded => LoadKnowledgeKeys \subseteq DOMAIN lk_result
    /\ fa.phase = "done" =>
          /\ ~fa.call.raised
          /\ DOMAIN fa.call.result = AnswerKeys

\* a run in which the construction of the embedding client raised
C11_Witness ==
    /\ RunEnded
    /\ lk_result = Result(FALSE, "OpenAIEmbeddings failed", 0, 0, 0)
    /\ started.disk.files # <<>>

\* C13: without OPENAI_API_KEY both operations return their failure result
\* at once: load_knowledge makes no call to the store, embeds and upserts
\* nothing and leaves the store as it was; get_finance_answer builds no
\* retriever, retrieves nothing (so no store, embedding or reranker call)
\* and does not call the chat model.  Neither tries again.
C13_MissingKeyFailsAtOnce ==
    /\ (runs > 0 /\ ~started.api_key) =>
          /\ started.calls = <<>>
          /\ pc = "idle"
          /\ lk_result = Result(FALSE, "OPENAI_API_KEY not set", 0, 0, 0)
          /\ embed_calls = <<>>
          /\ upsert_calls = <<>>
          /\ coll_exists = started.coll_exists
          /\ coll = started.coll
    /\ (fa.phase = "done" /\ ~fa.api_key) =>
          /\ fa.call.result.model = "error"
          /\ fa.call.result.sources = <<>>
          /\ ~fa.call.built
          /\ fa.call.retrieval = "none"
          /\ fa.call.llm_calls = 0

\* a run without the key, started with no client and a reachable store
C13_Witness ==
    /\ RunEnded
    /\ ~started.api_key
    /\ ~client_instance
    /\ lk_result.error = "OPENAI_API_KEY not set"
    /\ disk.files # <<>>


(***************************************************************************)
(* Properties of the hybrid retriever.                                     *)
(***************************************************************************)
\* the documents of a list that hold text of the file of this name
FromFile(list, name) == {r \in 1..Len(list) : list[r].page_content[1] = name}

\* the files of one chunk whose chunk is in both candidate lists: as the
\* file's document in the lexical list, as the chunk in the vector list
InBothLists ==
    {name \in {FileName(j) : j \in 1..hy.sh} :
        FromFile(hy.lex, name) # {} /\ FromFile(hy.vec, name) # {}}

\* C15: a chunk that is in the lexical and in the vector candidate list is
\* in the fused list exactly once, and the final quality-mode result has no
\* two entries of the same chunk.
C15_SharedChunkOnce ==
    hy.phase = "done" =>
        \A name \in InBothLists :
            /\ Cardinality(FromFile(hy.fused, name)) = 1
            /\ Cardinality(FromFile(hy.result, name)) <= 1

\* the part of C15 the code keeps: two candidates of the same page_content
\* are fused into one entry
C15_SameTextOnce ==
    hy.phase = "done" =>
        \A r, q \in 1..Len(hy.fused) :
            hy.fused[r].page_content = hy.fused[q].page_content => r = q

\* C17: the fused list, which is the list handed to the reranker, never has
\* more than INITIAL_K entries.
C17_FusedAtMostInitialK ==
    hy.phase = "done" => Len(hy.fused) <= INITIAL_K


(***************************************************************************)
(* Properties of get_qdrant_client.                                        *)
(***************************************************************************)
\* C20: over any interleaving of get_qdrant_client calls at most one client
\* is ever successfully constructed, and every call that returns a client
\* returns that one.
C20_OneClient ==
    /\ gc.constructed <= 1
    /\ \A t, u \in Threads :
          (gc.returned[t] # 0 /\ gc.returned[u] # 0) =>
              gc.returned[t] = gc.returned[u]

\* the part of C20 the code keeps: once _client_instance is set, a call that
\* begins returns it and changes nothing else
C20_SetInstanceIsReturned ==
    [][\A t \in Threads :
          (gc.instance # 0 /\ gc.pc[t] = "out" /\ gc'.calls = gc.calls + 1
                /\ gc'.pc[t] = "out" /\ gc'.returned[t] # gc.returned[t]) =>
              (gc'.returned[t] = gc.instance /\ gc'.constructed = gc.constructed)]_vars

(***************************************************************************)
(* Properties of the calculator.                                           *)
(***************************************************************************)
\* C27: run_calculation_query returns success=false with a null result
\* whenever the amount, the annual rate or the number of years cannot be
\* extracted from the query, in the monthly form (the query has a monthly
\* indicator, the amount is the monthly contribution) and in the lump-sum
\* form (the amount is the principal, or else a monthly contribution).
C27_MissingParameterFails ==
    cq.phase = "done" =>
        LET q == cq.query
            no_amount ==
                IF HasMonthlyIndicator(q)
                  THEN FirstMatch(monthly_patterns, q) = None
                  ELSE /\ FirstMatch(principal_patterns, q) = None
                       /\ FirstMatch(monthly_patterns, q) = None
        IN  (\/ no_amount
             \/ FirstMatch(rate_patterns, q) = None
             \/ FirstMatch(year_patterns, q) = None) =>
                (~cq.out.success /\ cq.out.result = NoNumber)

\* a lump-sum query with a principal and years but no rate has failed
C27_Witness ==
    /\ cq.phase = "done"
    /\ ~HasMonthlyIndicator(cq.query)
    /\ FirstMatch(principal_patterns, cq.query) # None
    /\ FirstMatch(year_patterns, cq.query) # None
    /\ FirstMatch(rate_patterns, cq.query) = None
    /\ \A m \in 1..Len(cq.query) : cq.query[m].kind # "current"
    /\ ~cq.out.success

\* C30: run_calculation_query never raises: it returns a result with a
\* boolean success; when success is true the result is a number and
\* investment_type is "lump_sum" or "monthly", and a query with a monthly
\* indicator is never computed as a lump sum.
C30_CalculationNeverRaises ==
    cq.phase = "done" =>
        /\ ~cq.out.raised
        /\ cq.out.success \in BOOLEAN
        /\ cq.out.success =>
              /\ cq.out.result # NoNumber
              /\ cq.out.investment_type \in {"lump_sum", "monthly"}
        /\ HasMonthlyIndicator(cq.query) => cq.out.investment_type # "lump_sum"
        /\ ~cq.out.success => cq.out.result = NoNumber

\* a query with a zero amount has been answered
C30_Witness ==
    /\ cq.phase = "done"
    /\ cq.out.parameters.parsed
    /\ cq.out.parameters.amount = 0
    /\ ~cq.out.success

\* a monthly query has been computed
C30_MonthlyReached ==
    /\ cq.phase = "done"
    /\ HasMonthlyIndicator(cq.query)
    /\ cq.out.success
    /\ cq.out.investment_type = "monthly"

(***************************************************************************)
(* Properties of the tool attribution.                                     *)
(***************************************************************************)
\* C29: the tool_used returned by run_agent_query names only tools invoked
\* while processing that same query, under any interleaving of queries and
\* of tool calls made outside run_agent_query.
C29_OwnToolsOnly ==
    \A t \in Agents :
        \A n \in 1..Len(ag.returned[t].from) :
            ag.returned[t].from[n] = ag.returned[t].req

\* what the reset at the start of a query does keep: a query during which
\* no other query ran and no tool was called from outside is attributed its
\* own tools, whatever was in the tracker before it
C29_QueryAloneOwnTools ==
    \A t \in Agents :
        (ag.pc[t] = "out" /\ ag.alone[t]) =>
            \A n \in 1..Len(ag.returned[t].from) :
                ag.returned[t].from[n] = ag.returned[t].req

\* a query that ran alone, started on a tracker that was not empty, has
\* returned a tool of its own
C29_AloneAfterOutsideCallReached ==
    \E t \in Agents :
        /\ ag.pc[t] = "out" /\ ag.alone[t]
        /\ ag.returned[t].from # <<>>
        /\ ag.tool_calls > Len(ag.returned[t].from)

(***************************************************************************)
(* Properties of the chat endpoint.                                        *)
(***************************************************************************)
\* C28: the chat endpoint answers with the calculator (tool "calculator",
\* the RAG pipeline not invoked) exactly when the question holds a
\* calculation keyword and run_calculation_query succeeds on it; in every
\* other case, a failed calculation included, the RAG pipeline answers and
\* the tool is "rag".
C28_CalculatorOrRag ==
    ch.phase = "done" =>
        LET calc == IsCalculation(ch.question)
                       /\ RunCalculationQuery(ch.question).success
            r == ch.call.response
        IN  /\ calc => /\ r.tool = "calculator"
                       /\ ~ch.call.rag_called
                       /\ r.answer = RunCalculationQuery(ch.question).result
            /\ ~calc => /\ r.tool = "rag"
                        /\ ch.call.rag_called
                        /\ r.status = 200

\* a question with a keyword on which the calculation failed was answered
\* by the RAG pipeline
C28_Witness ==
    /\ ch.phase = "done"
    /\ IsCalculation(ch.question)
    /\ ch.call.calc_called
    /\ ch.call.rag_called
    /\ ch.call.response.tool = "rag"

\* the calculator answered
C28_CalculatorReached ==
    /\ ch.phase = "done"
    /\ ch.call.response.tool = "calculator"

\* a question the calculator could compute went to the RAG pipeline for
\* want of a keyword
C28_NoKeywordReached ==
    /\ ch.phase = "done"
    /\ ~IsCalculation(ch.question)
    /\ RunCalculationQuery(ch.question).success
    /\ ch.call.response.tool = "rag"

(***************************************************************************)
(* Blank source files.                                                     *)
(***************************************************************************)
Blank(f) == f.readable /\ f.nchunks = 0

HasBlank(files) == \E n \in 1..Len(files) : Blank(files[n])

\* a run that got to the chunking loop has ended, and no call of the
\* embedding API or of the store failed in it
CleanRunEnded ==
    /\ RunEnded
    /\ txt_files # <<>>
    /\ file_idx = Len(txt_files)
    /\ \A n \in 1..Len(embed_calls) : embed_calls[n].ok
    /\ \A n \in 1..Len(upsert_calls) : upsert_calls[n].ok

\* C25: a run of load_knowledge in which a source file, or every source
\* file, is empty or whitespace-only adds no chunk for it and reports no
\* error because of it.
C25_BlankIsNoError ==
    (/\ CleanRunEnded
     /\ HasBlank(txt_files)
     /\ \A n \in 1..Len(txt_files) : txt_files[n].readable) =>
        /\ \A m \in 1..Len(all_chunks), n \in 1..Len(txt_files) :
              Blank(txt_files[n]) => all_chunks[m].source # txt_files[n].name
        /\ lk_result.success

\* C25, as the code has it: a blank file adds no chunk and is not counted
\* in documents_processed, and the run succeeds when another file gave a
\* chunk; when no file gave a chunk the run returns the non-success
\* "No chunks created".
C25_BlankSkippedNoChunksIsError ==
    (CleanRunEnded /\ HasBlank(txt_files)) =>
        /\ \A m \in 1..Len(all_chunks), n \in 1..Len(txt_files) :
              Blank(txt_files[n]) => all_chunks[m].source # txt_files[n].name
        /\ documents_processed = DocsOf(txt_files)
        /\ lk_result.documents_processed = DocsOf(txt_files)
        /\ all_chunks # <<>> => lk_result.success
        /\ all_chunks = <<>> =>
              /\ ~lk_result.success
              /\ lk_result.error = "No chunks created"
              /\ lk_result.vectors_indexed = 0

\* a run over a corpus with a blank file among others succeeded
C25_Witness ==
    /\ CleanRunEnded
    /\ HasBlank(txt_files)
    /\ all_chunks # <<>>
    /\ lk_result.success

\* a run over blank files only
C25_AllBlankReached ==
    /\ CleanRunEnded
    /\ \A n \in 1..Len(txt_files) : Blank(txt_files[n])

(***************************************************************************)
(* Properties of the text splitter.                                        *)
(***************************************************************************)
\* C24: every chunk produced at index time has length at most chunk_size.
C24_ChunksWithinSize ==
    sp.phase = "done" =>
        \A n \in 1..Len(sp.chunks) : ChunkLen(sp.chunks[n]) <= sp.chunk_size

\* what the splitter does keep: a chunk is longer than chunk_size only when
\* it is a single line that is longer
C24_OnlyLongLinesExceed ==
    sp.phase = "done" =>
        \A n \in 1..Len(sp.chunks) :
            ChunkLen(sp.chunks[n]) > sp.chunk_size => Len(sp.chunks[n]) = 1

(***************************************************************************)
(* The choice of the retriever.                                            *)
(***************************************************************************)
Reranked(docs) ==
    \E n \in 1..Len(docs) : "rerank_score" \in DOMAIN docs[n].metadata

\* C23: the retrieval strategy of a request is a function of its mode alone,
\* whatever the query text: the mode "advanced" selects the hybrid retriever
\* with reranking, every other mode the similarity search, so that only a
\* request of mode "advanced" returns reranked documents.
C23_StrategyByModeOnly ==
    fa.phase = "done" =>
        /\ fa.strategy = (IF fa.mode = "advanced" THEN "advanced" ELSE "base")
        /\ Reranked(fa.call.docs) => fa.mode = "advanced"

\* a request of another mode than "advanced" was answered from the
\* similarity search
C23_Witness ==
    /\ fa.phase = "done"
    /\ fa.mode = "quality"
    /\ fa.strategy = "base"
    /\ fa.call.retrieval = "ok"
    /\ fa.call.docs # <<>>

\* a request of mode "advanced" got reranked documents
C23_AdvancedReached ==
    /\ fa.phase = "done"
    /\ fa.mode = "advanced"
    /\ Reranked(fa.call.docs)

\* C26: every entry of the sources list carries the source and the chunk_id
\* under which its chunk was stored at index time.
C26_SourcesCarryStoredIdentity ==
    fa.phase = "done" =>
        \A n \in 1..Len(fa.call.result.sources) :
            LET p == StoredAs(fa.call.docs[n].metadata._id)
                e == fa.call.result.sources[n]
            IN  /\ e.source = p.payload.source
                /\ e.chunk_id = p.payload.chunk_id

\* what the entries of the similarity search carry instead: the defaults of
\* metadata.get
C26_SourcesCarryDefaults ==
    (fa.phase = "done" /\ fa.strategy = "base") =>
        \A n \in 1..Len(fa.call.result.sources) :
            LET e == fa.call.result.sources[n]
            IN  e.source = "unknown" /\ e.chunk_id = 0 /\ e.score = 0

(***************************************************************************)
(* The collection is ensured before the first write of a run.              *)
(***************************************************************************)
\* C22: in a run of load_knowledge a point is upserted only after
\* ensure_collection for the target collection, with vector size 1536 and
\* cosine distance, has returned True in that run; when it returned False
\* the run has ended without a write to the store.
C22_EnsuredBeforeUpsert ==
    /\ upsert_calls # <<>> =>
          /\ started.ensure.called /\ started.ensure.returned
          /\ started.ensure.name = COLLECTION_NAME
          /\ started.ensure.size = VECTOR_SIZE
          /\ started.ensure.distance = "Cosine"
    /\ (started.ensure.called /\ ~started.ensure.returned) =>
          /\ pc = "idle" /\ ~lk_result.success
          /\ lk_result.error = "Failed to create collection"
          /\ upsert_calls = <<>>
          /\ coll = started.coll

\* a run whose ensure_collection returned True has written a batch
C22_Witness ==
    /\ started.ensure.returned
    /\ upsert_calls # <<>>
    /\ upsert_calls[1].ok

\* a run ended at an ensure_collection that returned False
C22_FailedEnsureReached ==
    /\ RunEnded
    /\ started.ensure.called /\ ~started.ensure.returned

(***************************************************************************)
(* Properties of ensure_collection.                                        *)
(***************************************************************************)
CountNamed(store, name) == Cardinality({n \in 1..Len(store) : store[n].name = name})

\* the last two calls were ensure_collection with the same name and
\* parameters, and the store answered both
TwiceInARow ==
    /\ Len(ec.calls) >= 2
    /\ LET a == ec.calls[Len(ec.calls) - 1]
           b == ec.calls[Len(ec.calls)]
       IN  /\ a.answered /\ b.answered
           /\ a.name = b.name /\ a.size = b.size

\* C21: when ensure_collection is called twice in a row with the same name
\* and parameters on a store that answers, both calls return True, the
\* second creates nothing, and the store holds exactly one collection of
\* that name.
C21_EnsureIdempotent ==
    TwiceInARow =>
        LET a == ec.calls[Len(ec.calls) - 1]
            b == ec.calls[Len(ec.calls)]
        IN  /\ a.returned /\ b.returned
            /\ ~b.created
            /\ CountNamed(ec.store, b.name) = 1

\* the first of the two calls created the collection
C21_Witness ==
    /\ TwiceInARow
    /\ ec.calls[Len(ec.calls) - 1].created
    /\ ec.calls[Len(ec.calls)].returned

====
